---- MODULE Spec2Model ----
(***************************************************************************)
(* Model of collatz-map-density.py: the trajectory walker                  *)
(* (walk_collect_odds) and the driver loop of main() with its run-length / *)
(* pair accounting and its checkpoint printing.                            *)
(***************************************************************************)
EXTENDS Integers, Sequences, FiniteSets, TLC

VARIABLES
    max_val,                \* MAX_VAL, the inclusive upper bound of the scan
    n,                      \* loop variable of main / start_n of the walk
    pc,                     \* position: "call", "loop", "ret", "done", "acc"
    seen_odds,              \* main: the memo set
    cur,                    \* walk_collect_odds: running value
    odds,                   \* walk_collect_odds: odd values collected
    color,                  \* colour returned by the walk
    current_color,          \* main: colour of the open run
    previous_color,         \* main: current_color at the end of the previous iteration
    current_len,            \* main: length of the open run
    pending_green,          \* main: closed green run waiting for its blue run
    total_green,
    total_blue,
    total_runs,
    processed,
    next_pow,
    print_await_next_pair,
    events,                 \* checkpoint lines printed so far
    heartbeats,             \* processed counts at which the empty redraw was issued
    fed                     \* colours folded into the run-length state so far

vars == <<max_val, n, pc, seen_odds, cur, odds, color, current_color,
          previous_color, current_len, pending_green, total_green, total_blue,
          total_runs, processed, next_pow, print_await_next_pair, events,
          heartbeats, fed>>

walkVars == <<cur, odds, color>>
accVars  == <<current_color, current_len, pending_green, total_green,
              total_blue, total_runs>>
drvVars  == <<previous_color, processed, next_pow, print_await_next_pair,
              events, heartbeats>>

----------------------------------------------------------------------------
(* Bounds of the model *)

MaxBound  == 70     \* upper bounds 1..MaxBound are scanned
NumStarts == 12     \* the walker is tried on the starts 1, 3, ..., 2*NumStarts-1
NumMemo   == 6      \* ... against every memo {1} \cup S, S a set of the first NumMemo odds above 1
NumBeats  == 2      \* the long scan runs up to the start of the NumBeats-th heartbeat
Lead      == 1      \* ... and is followed step by step for its last Lead iterations
NumEnds   == 8      \* upper bounds from that start on, two apart, are scanned
MaxObs    == 8      \* the accumulator is fed every colour sequence up to this length

----------------------------------------------------------------------------
(* Python values *)

None == -1          \* Python's None for the integer-valued names

HEARTBEAT == 16384

RECURSIVE BitAnd(_, _)
BitAnd(a, b) ==
    IF a = 0 \/ b = 0 THEN 0
    ELSE (a % 2) * (b % 2) + 2 * BitAnd(a \div 2, b \div 2)

is_pow2(x) == x > 0 /\ BitAnd(x, x - 1) = 0

(* Variant: the odd branch subtracts instead of adds *)
step_Minus(m) == IF m % 2 = 0 THEN m \div 2 ELSE 3 * m - 1

step(m) == IF m % 2 = 0 THEN m \div 2 ELSE 3 * m + 1

----------------------------------------------------------------------------
(* walk_collect_odds(start_n = n, seen_odds) *)

(* Variant: the membership test of line 36 is missing *)
WalkEnter_NoEarlyReturn ==
    /\ pc = "call"
    /\ cur' = n
    /\ odds' = {n}
    /\ color' = color
    /\ pc' = "loop"
    /\ UNCHANGED <<max_val, n, seen_odds, fed>>
    /\ UNCHANGED accVars
    /\ UNCHANGED drvVars

(* Variant: line 37 returns the other colour *)
WalkEnter_GreenWhenKnown ==
    /\ pc = "call"
    /\ IF n \in seen_odds
         THEN /\ color' = "green"
              /\ odds' = {n}
              /\ cur' = None
              /\ pc' = "ret"
         ELSE /\ cur' = n
              /\ odds' = {n}
              /\ color' = color
              /\ pc' = "loop"
    /\ UNCHANGED <<max_val, n, seen_odds, fed>>
    /\ UNCHANGED accVars
    /\ UNCHANGED drvVars

WalkEnter ==
    /\ pc = "call"
    /\ IF n \in seen_odds
         THEN /\ color' = "blue"
              /\ odds' = {n}
              /\ cur' = None
              /\ pc' = "ret"
         ELSE /\ cur' = n
              /\ odds' = {n}
              /\ color' = color
              /\ pc' = "loop"
    /\ UNCHANGED <<max_val, n, seen_odds, fed>>
    /\ UNCHANGED accVars
    /\ UNCHANGED drvVars

(* Variant: line 46 returns "blue" when a seen odd value is reached *)
WalkStep_BlueOnHit ==
    /\ pc = "loop"
    /\ LET c == step(cur) IN
       /\ cur' = c
       /\ IF c % 2 = 1 /\ c \in seen_odds
            THEN /\ odds' = odds \cup {c}
                 /\ color' = "blue"
                 /\ pc' = "ret"
            ELSE /\ odds' = IF c % 2 = 1 THEN odds \cup {c} ELSE odds
                 /\ IF c = 1 \/ is_pow2(c)
                      THEN color' = "green" /\ pc' = "ret"
                      ELSE color' = color /\ pc' = "loop"
    /\ UNCHANGED <<max_val, n, seen_odds, fed>>
    /\ UNCHANGED accVars
    /\ UNCHANGED drvVars

(* Variant: line 45 is missing, the seen odd value is not collected *)
WalkStep_DropHit ==
    /\ pc = "loop"
    /\ LET c == step(cur) IN
       /\ cur' = c
       /\ IF c % 2 = 1 /\ c \in seen_odds
            THEN /\ odds' = odds
                 /\ color' = "green"
                 /\ pc' = "ret"
            ELSE /\ odds' = IF c % 2 = 1 THEN odds \cup {c} ELSE odds
                 /\ IF c = 1 \/ is_pow2(c)
                      THEN color' = "green" /\ pc' = "ret"
                      ELSE color' = color /\ pc' = "loop"
    /\ UNCHANGED <<max_val, n, seen_odds, fed>>
    /\ UNCHANGED accVars
    /\ UNCHANGED drvVars

(* One pass of the while loop, lines 42-49: the new cur and odds, whether  *)
(* the walk returns and the colour it returns                              *)
loop_step(c0, od, seen) ==
    LET c == step(c0) IN
    IF c % 2 = 1 /\ c \in seen
      THEN [cur |-> c, odds |-> od \cup {c}, ret |-> TRUE, color |-> "green"]
      ELSE [cur   |-> c,
            odds  |-> IF c % 2 = 1 THEN od \cup {c} ELSE od,
            ret   |-> (c = 1 \/ is_pow2(c)),
            color |-> "green"]

WalkStep ==
    /\ pc = "loop"
    /\ LET r == loop_step(cur, odds, seen_odds) IN
       /\ cur' = r.cur
       /\ odds' = r.odds
       /\ IF r.ret
            THEN color' = r.color /\ pc' = "ret"
            ELSE color' = color /\ pc' = "loop"
    /\ UNCHANGED <<max_val, n, seen_odds, fed>>
    /\ UNCHANGED accVars
    /\ UNCHANGED drvVars

(* The while loop as a function.  k passes of the loop, or fewer when the  *)
(* walk returns earlier; w holds cur, odds, whether the walk has returned  *)
(* and its colour.  The passes are split in halves, the first half being   *)
(* computed before the second is entered.                                  *)
RECURSIVE passes(_, _, _)
passes(w, k, seen) ==
    IF w.ret THEN w
    ELSE IF k = 1 THEN loop_step(w.cur, w.odds, seen)
    ELSE CHOOSE r \in { passes(h, k - k \div 2, seen) :
                            h \in {passes(w, k \div 2, seen)} } : TRUE

(* while True, lines 41-49: passes until the walk returns *)
RECURSIVE walk_loop(_, _, _)
walk_loop(w, k, seen) ==
    CHOOSE r \in { IF h.ret THEN h ELSE walk_loop(h, 2 * k, seen) :
                       h \in {passes(w, k, seen)} } : TRUE

(* The whole call as a function: the final cur, odds and colour, lines 36-49 *)
walk_collect_odds(start_n, seen) ==
    IF start_n \in seen
      THEN [cur |-> None, odds |-> {start_n}, color |-> "blue"]
      ELSE LET r == walk_loop([cur |-> start_n, odds |-> {start_n},
                               ret |-> FALSE, color |-> "None"], 1, seen)
           IN  [cur |-> r.cur, odds |-> r.odds, color |-> r.color]

----------------------------------------------------------------------------
(* Names of main as they stand before the for loop, lines 90-108 *)

InitMain ==
    /\ current_color = "None"
    /\ previous_color = "green"
    /\ current_len = 0
    /\ pending_green = None
    /\ total_green = 0
    /\ total_blue = 0
    /\ total_runs = 0
    /\ processed = 0
    /\ next_pow = 2
    /\ print_await_next_pair = FALSE
    /\ events = << >>
    /\ heartbeats = << >>
    /\ fed = << >>
    /\ cur = None
    /\ odds = {}
    /\ color = "None"

(* The run-length / pair state of main as one value *)

Acc ==
    [ current_color |-> current_color,
      current_len   |-> current_len,
      pending_green |-> pending_green,
      total_green   |-> total_green,
      total_blue    |-> total_blue,
      total_runs    |-> total_runs ]

SetAcc(a) ==
    /\ current_color' = a.current_color
    /\ current_len'   = a.current_len
    /\ pending_green' = a.pending_green
    /\ total_green'   = a.total_green
    /\ total_blue'    = a.total_blue
    /\ total_runs'    = a.total_runs

(* Variant: a blue run is counted although no green run is pending *)
close_run_CountUnpaired(a) ==
    IF a.current_color = "green"
      THEN [a EXCEPT !.pending_green = a.current_len]
      ELSE IF a.pending_green # None
             THEN [a EXCEPT !.total_green   = @ + a.pending_green,
                            !.total_blue    = @ + a.current_len,
                            !.total_runs    = @ + a.pending_green + a.current_len,
                            !.pending_green = None]
             ELSE [a EXCEPT !.total_blue = @ + a.current_len,
                            !.total_runs = @ + a.current_len]

(* Variant: the two counts of a pair are added to the wrong totals *)
close_run_SwapTotals(a) ==
    IF a.current_color = "green"
      THEN [a EXCEPT !.pending_green = a.current_len]
      ELSE IF a.pending_green # None
             THEN [a EXCEPT !.total_green   = @ + a.current_len,
                            !.total_blue    = @ + a.pending_green,
                            !.total_runs    = @ + a.pending_green + a.current_len,
                            !.pending_green = None]
             ELSE a

(* Variant: line 136 is missing, the pending length survives its pair *)
close_run_KeepPending(a) ==
    IF a.current_color = "green"
      THEN [a EXCEPT !.pending_green = a.current_len]
      ELSE IF a.pending_green # None
             THEN [a EXCEPT !.total_green   = @ + a.pending_green,
                            !.total_blue    = @ + a.current_len,
                            !.total_runs    = @ + a.pending_green + a.current_len]
             ELSE a

(* Finish the previous run, lines 127-136 *)
close_run(a) ==
    IF a.current_color = "green"
      THEN [a EXCEPT !.pending_green = a.current_len]
      ELSE IF a.pending_green # None
             THEN [a EXCEPT !.total_green   = @ + a.pending_green,
                            !.total_blue    = @ + a.current_len,
                            !.total_runs    = @ + a.pending_green + a.current_len,
                            !.pending_green = None]
             ELSE a

(* Variant: the new run starts with length 0 *)
observe_RestartAtZero(a, c) ==
    IF a.current_color = "None"
      THEN [a EXCEPT !.current_color = c, !.current_len = 1]
      ELSE IF c = a.current_color
             THEN [a EXCEPT !.current_len = @ + 1]
             ELSE [close_run(a) EXCEPT !.current_color = c, !.current_len = 0]

(* Update run-length, lines 120-139 *)
observe(a, c) ==
    IF a.current_color = "None"
      THEN [a EXCEPT !.current_color = c, !.current_len = 1]
      ELSE IF c = a.current_color
             THEN [a EXCEPT !.current_len = @ + 1]
             ELSE [close_run(a) EXCEPT !.current_color = c, !.current_len = 1]

(* Percentages as exact fractions <<numerator, denominator>>, lines 143-147 *)
pct(total, runs) == IF runs > 0 THEN <<100 * total, runs>> ELSE <<0, 1>>

(* Variant: the memo is replaced by the walk's set instead of extended *)
update_Replace(seen, odds_seen) == odds_seen

(* seen_odds.update(odds_seen), line 113 *)
update(seen, odds_seen) == seen \cup odds_seen

(* The line printed by print_above_bar at lines 150-153 and 159-162 *)
checkpoint_line(m, pow, a, deferred) ==
    [ label    |-> pow,
      at       |-> m,
      deferred |-> deferred,
      g_pct    |-> pct(a.total_green, a.total_runs),
      b_pct    |-> pct(a.total_blue, a.total_runs) ]

total_odds == ((max_val - 1) \div 2) + 1

(* Variant: the seed start is counted like every other start *)
counted_All(m) == TRUE

(* if n != 1, line 118 *)
counted(m) == m # 1

(* the test of line 149 *)
print_due(flag, cc, prev) == flag /\ cc = "blue" /\ prev = "green"

(* Variant: the cutoff is one boundary too early *)
await_pair_From15(m) == m >= 15

(* if n >= 17, line 156 *)
await_pair(m) == m >= 17

(* Variant: the cadence is counted by position in the scan *)
heartbeat_due_ByPosition(m) == ((m + 1) \div 2) % HEARTBEAT = 1

(* if n % 16384 == 1, line 164 *)
heartbeat_due(m) == m % HEARTBEAT = 1

(* Variant: the range stops before MAX_VAL *)
in_range_Exclusive(m) == m < max_val

(* range(1, MAX_VAL + 1, 2), line 111 *)
in_range(m) == m <= max_val

(* All names of main and the result of the last walk as one value *)
Main ==
    [ seen_odds             |-> seen_odds,
      cur                   |-> cur,
      odds                  |-> odds,
      color                 |-> color,
      current_color         |-> current_color,
      previous_color        |-> previous_color,
      current_len           |-> current_len,
      pending_green         |-> pending_green,
      total_green           |-> total_green,
      total_blue            |-> total_blue,
      total_runs            |-> total_runs,
      processed             |-> processed,
      next_pow              |-> next_pow,
      print_await_next_pair |-> print_await_next_pair,
      events                |-> events,
      heartbeats            |-> heartbeats,
      fed                   |-> fed ]

SetMain(s) ==
    /\ seen_odds' = s.seen_odds
    /\ cur' = s.cur
    /\ odds' = s.odds
    /\ color' = s.color
    /\ current_color' = s.current_color
    /\ previous_color' = s.previous_color
    /\ current_len' = s.current_len
    /\ pending_green' = s.pending_green
    /\ total_green' = s.total_green
    /\ total_blue' = s.total_blue
    /\ total_runs' = s.total_runs
    /\ processed' = s.processed
    /\ next_pow' = s.next_pow
    /\ print_await_next_pair' = s.print_await_next_pair
    /\ events' = s.events
    /\ heartbeats' = s.heartbeats
    /\ fed' = s.fed

AccOf(s) ==
    [ current_color |-> s.current_color,
      current_len   |-> s.current_len,
      pending_green |-> s.pending_green,
      total_green   |-> s.total_green,
      total_blue    |-> s.total_blue,
      total_runs    |-> s.total_runs ]

(* The body of the for loop for start m after the walk has returned,         *)
(* lines 113-169                                                             *)
loop_body(m, s) ==
    LET a        == IF counted(m) THEN observe(AccOf(s), s.color) ELSE AccOf(s)
        late     == print_due(s.print_await_next_pair, a.current_color,
                              s.previous_color)
        ev1      == IF late
                      THEN Append(s.events, checkpoint_line(m, s.next_pow, a, TRUE))
                      ELSE s.events
        flag1    == IF late THEN FALSE ELSE s.print_await_next_pair
        boundary == (m + 1) = 2 ^ s.next_pow
    IN  [ s EXCEPT
            !.seen_odds             = update(s.seen_odds, s.odds),
            !.processed             = s.processed + 1,
            !.current_color         = a.current_color,
            !.current_len           = a.current_len,
            !.pending_green         = a.pending_green,
            !.total_green           = a.total_green,
            !.total_blue            = a.total_blue,
            !.total_runs            = a.total_runs,
            !.fed                   = IF counted(m) THEN Append(s.fed, s.color)
                                                    ELSE s.fed,
            !.events                = IF boundary /\ ~await_pair(m)
                                        THEN Append(ev1, checkpoint_line(m, s.next_pow, a, FALSE))
                                        ELSE ev1,
            !.print_await_next_pair = IF boundary /\ await_pair(m) THEN TRUE
                                                                   ELSE flag1,
            !.next_pow              = IF boundary THEN s.next_pow + 1
                                                  ELSE s.next_pow,
            !.heartbeats            = IF heartbeat_due(m)
                                        THEN Append(s.heartbeats, s.processed + 1)
                                        ELSE s.heartbeats,
            !.previous_color        = a.current_color ]

(* One iteration of the for loop after the walk has returned, lines 113-169, *)
(* and the loop's advance to the next start or to its end, lines 111, 170    *)
Iterate ==
    /\ pc = "ret"
    /\ SetMain(loop_body(n, Main))
    /\ IF in_range(n + 2)
         THEN n' = n + 2 /\ pc' = "call"
         ELSE n' = n /\ pc' = "done"
    /\ UNCHANGED max_val

Init ==
    /\ InitMain
    /\ max_val \in 1..MaxBound
    /\ seen_odds = {1}
    /\ n = 1
    /\ pc = "call"

Next == WalkEnter \/ WalkStep \/ Iterate

Spec == Init /\ [][Next]_vars

(* The scan under the scheduling of a sequential program: it keeps running *)
FairSpec == Spec /\ WF_vars(Next)

(* The names of main before the loop, lines 90-108 *)
main_start ==
    [ seen_odds             |-> {1},
      cur                   |-> None,
      odds                  |-> {},
      color                 |-> "None",
      current_color         |-> "None",
      previous_color        |-> "green",
      current_len           |-> 0,
      pending_green         |-> None,
      total_green           |-> 0,
      total_blue            |-> 0,
      total_runs            |-> 0,
      processed             |-> 0,
      next_pow              |-> 2,
      print_await_next_pair |-> FALSE,
      events                |-> << >>,
      heartbeats            |-> << >>,
      fed                   |-> << >> ]

(* The set S itself, held by its elements rather than as a nest of unions *)
enumerated(S) == { x : x \in S }

(* The i-th iteration of the loop as a whole: walk, then loop body *)
iteration(s, i) ==
    CHOOSE r \in
        { [t EXCEPT !.seen_odds = enumerated(t.seen_odds)] :
            t \in { loop_body(2 * i - 1,
                              [s EXCEPT !.cur = w.cur,
                                        !.odds = enumerated(w.odds),
                                        !.color = w.color]) :
                       w \in {walk_collect_odds(2 * i - 1, s.seen_odds)} } } : TRUE

(* The names of main after the iterations lo..hi, started from s; the value *)
(* after the first half is computed before the second half is entered       *)
RECURSIVE scan(_, _, _)
scan(s, lo, hi) ==
    IF lo > hi THEN s
    ELSE IF lo = hi THEN iteration(s, lo)
    ELSE LET mid == (lo + hi) \div 2
         IN  CHOOSE r \in { scan(h, mid + 1, hi) : h \in {scan(s, lo, mid)} } : TRUE

(* A long scan, taken up Lead iterations before the start of the             *)
(* NumBeats-th heartbeat and run to an upper bound at or just past it        *)
InitBeat ==
    \E s \in { scan(main_start, 1, (HEARTBEAT \div 2) * (NumBeats - 1) - Lead) } :
        /\ seen_odds = s.seen_odds
        /\ cur = s.cur
        /\ odds = s.odds
        /\ color = s.color
        /\ current_color = s.current_color
        /\ previous_color = s.previous_color
        /\ current_len = s.current_len
        /\ pending_green = s.pending_green
        /\ total_green = s.total_green
        /\ total_blue = s.total_blue
        /\ total_runs = s.total_runs
        /\ processed = s.processed
        /\ next_pow = s.next_pow
        /\ print_await_next_pair = s.print_await_next_pair
        /\ events = s.events
        /\ heartbeats = s.heartbeats
        /\ fed = s.fed
        /\ max_val \in { HEARTBEAT * (NumBeats - 1) + 2 * j - 1 : j \in 1..NumEnds }
        /\ n = 2 * s.processed + 1
        /\ pc = "call"

SpecBeat == InitBeat /\ [][Next]_vars

(* The run-length update alone, fed every colour sequence within the bound *)

Feed ==
    /\ pc = "acc"
    /\ Len(fed) < MaxObs
    /\ \E c \in {"green", "blue"} :
          /\ SetAcc(observe(Acc, c))
          /\ fed' = Append(fed, c)
    /\ UNCHANGED <<max_val, n, pc, seen_odds, cur, odds, color>>
    /\ UNCHANGED drvVars

InitAcc ==
    /\ InitMain
    /\ max_val = 1
    /\ seen_odds = {1}
    /\ n = 1
    /\ pc = "acc"

NextAcc == Feed

SpecAcc == InitAcc /\ [][NextAcc]_vars

(* The walker alone, called on every start and every memo within the bounds *)

Starts == { 2 * i - 1 : i \in 1..NumStarts }

MemoOdds == { 2 * i + 1 : i \in 1..NumMemo }

InitWalk ==
    /\ InitMain
    /\ max_val = 2 * NumStarts
    /\ n \in Starts
    /\ seen_odds \in { {1} \cup S : S \in SUBSET MemoOdds }
    /\ pc = "call"

NextWalk == WalkEnter \/ WalkStep

SpecWalk == InitWalk /\ [][NextWalk]_vars

----------------------------------------------------------------------------
(* Vocabulary of the properties: the trajectory of a start, stated apart   *)
(* from the walker's loop                                                  *)

RECURSIVE IsPowerOfTwo(_)
IsPowerOfTwo(v) == v = 1 \/ (v > 1 /\ v % 2 = 0 /\ IsPowerOfTwo(v \div 2))

IsStopValue(v, memo) == (v % 2 = 1 /\ v \in memo) \/ IsPowerOfTwo(v)

(* The values after c, up to and including the first stop value *)
RECURSIVE TrajToStop(_, _)
TrajToStop(c, memo) ==
    LET c1 == IF c % 2 = 0 THEN c \div 2 ELSE 3 * c + 1
    IN  IF IsStopValue(c1, memo) THEN <<c1>> ELSE <<c1>> \o TrajToStop(c1, memo)

Range(t) == { t[i] : i \in DOMAIN t }

(* A memoized odd value is met before any power of two *)
MemoHitFirst(start, memo) ==
    LET t == TrajToStop(start, memo)
        last == t[Len(t)]
    IN  last % 2 = 1 /\ last \in memo

Returned == pc = "ret"

----------------------------------------------------------------------------
(* C1 (as stated): for every odd start n > 1 and memo containing 1, the walk *)
(* returns Discovered (green) if and only if n is not memoized and no        *)
(* memoized odd value is met before a power of two; otherwise Known (blue).  *)
C1_DiscoveredIffNoMemoHit ==
    (Returned /\ n > 1) =>
        /\ color = "green" <=> (n \notin seen_odds /\ ~MemoHitFirst(n, seen_odds))
        /\ (n \in seen_odds \/ MemoHitFirst(n, seen_odds)) => color = "blue"

(* C1 (amended): for every odd start n > 1 and memo containing 1, the walk   *)
(* returns Discovered when no memoized odd value is met before a power of    *)
(* two, and it returns Discovered as well when a memoized odd value is met   *)
(* first; it returns Known only when n itself is memoized.                   *)
C1_DiscoveredUnlessStartMemoized ==
    (Returned /\ n > 1) =>
        /\ (n \notin seen_odds /\ ~MemoHitFirst(n, seen_odds)) => color = "green"
        /\ (n \notin seen_odds /\ MemoHitFirst(n, seen_odds)) => color = "green"
        /\ n \in seen_odds => color = "blue"

C1_Witness ==
    /\ Returned
    /\ n > 1
    /\ n \notin seen_odds
    /\ MemoHitFirst(n, seen_odds)
    /\ color = "green"

(* C2: a start that is already in the memo makes the walk return at once     *)
(* with Known (blue) and the visited set {n}; the step function is not       *)
(* applied (cur is never assigned).                                          *)
C2_MemoizedStartReturnsAtOnce ==
    [][ (pc = "call" /\ n \in seen_odds) =>
            (pc' = "ret" /\ color' = "blue" /\ odds' = {n} /\ cur' = None) ]_vars

C2_Witness ==
    /\ Returned
    /\ n \in seen_odds
    /\ n > 1
    /\ color = "blue"
    /\ odds = {n}

(* C3: the walk returns blue if and only if start_n is in seen_odds at the   *)
(* call; it returns green whichever stop condition (memoized odd reached,    *)
(* power of two reached) ends the loop.                                      *)
C3_BlueIffStartSeen ==
    Returned =>
        /\ color \in {"blue", "green"}
        /\ color = "blue" <=> n \in seen_odds
        /\ (n \notin seen_odds /\ cur \in seen_odds) => color = "green"
        /\ (n \notin seen_odds /\ is_pow2(cur)) => color = "green"

C3_Witness ==
    /\ Returned
    /\ n \notin seen_odds
    /\ is_pow2(cur)
    /\ cur \notin seen_odds
    /\ color = "green"

(* C4: for a start not in the memo the returned set holds n and exactly the  *)
(* odd values of the trajectory of n up to and including the first value     *)
(* that is an odd member of the memo or a power of two; nothing even and     *)
(* nothing past that value.                                                  *)
C4_VisitedIsOddPrefix ==
    (Returned /\ n \notin seen_odds) =>
        /\ n \in odds
        /\ \A v \in odds : v % 2 = 1
        /\ odds = {n} \cup { v \in Range(TrajToStop(n, seen_odds)) : v % 2 = 1 }

C4_Witness ==
    /\ Returned
    /\ n \notin seen_odds
    /\ cur \in seen_odds
    /\ cur > 1
    /\ Cardinality(odds) >= 3

----------------------------------------------------------------------------
(* Vocabulary of the properties: the runs of the colour sequence fed so far *)

RECURSIVE RunsOf(_)
RunsOf(q) ==
    IF q = << >> THEN << >>
    ELSE LET r == RunsOf(SubSeq(q, 1, Len(q) - 1))
             c == q[Len(q)]
         IN  IF r # << >> /\ r[Len(r)].color = c
               THEN [r EXCEPT ![Len(r)].len = @ + 1]
               ELSE Append(r, [color |-> c, len |-> 1])

RECURSIVE SumLen(_, _)
SumLen(r, I) ==
    IF I = {} THEN 0
    ELSE LET i == CHOOSE j \in I : TRUE IN r[i].len + SumLen(r, I \ {i})

(* Indices of the green runs that are closed and followed by a closed blue run *)
PairedGreen(r) ==
    { i \in 1..(Len(r) - 2) : r[i].color = "green" /\ r[i + 1].color = "blue" }

PairedBlue(r) == { i + 1 : i \in PairedGreen(r) }

Alternating(r, k) ==
    /\ Len(r) = k
    /\ \A i \in 1..k : r[i].color = (IF i % 2 = 1 THEN "green" ELSE "blue")

MemoOK(m) == 1 \in m /\ \A v \in m : v > 0 /\ v % 2 = 1

----------------------------------------------------------------------------
(* C5: the memo always contains 1 and only odd positive integers; it is      *)
(* changed only by the merge after a walk has returned, which makes it the   *)
(* union of the old memo and the walk's returned set (so it never shrinks);  *)
(* the walk itself leaves it unchanged.                                      *)
C5_MemoGrowsOnlyByMerge ==
    [][ /\ MemoOK(seen_odds)
        /\ MemoOK(seen_odds')
        /\ seen_odds \subseteq seen_odds'
        /\ pc \in {"call", "loop"} => seen_odds' = seen_odds
        /\ pc = "ret" => /\ odds \subseteq seen_odds'
                         /\ seen_odds' \subseteq (seen_odds \cup odds) ]_vars

C5_Witness ==
    /\ processed = 4
    /\ pc = "call"
    /\ seen_odds = {1, 3, 5, 7, 11, 13, 17}

(* C6: after any fed colour sequence total_green + total_blue = total_runs,  *)
(* and this is the sum of the lengths of exactly the runs closed as the      *)
(* green half or the blue half of a completed green-then-blue pair; the open *)
(* run and an unpaired closed run are not included.                          *)
C6_TotalsAreCompletedPairs ==
    LET r == RunsOf(fed) IN
    /\ total_green + total_blue = total_runs
    /\ total_runs = SumLen(r, PairedGreen(r)) + SumLen(r, PairedBlue(r))

C6_Witness ==
    /\ Len(fed) >= 5
    /\ fed[1] = "blue"
    /\ total_runs >= 3
    /\ pending_green # None

(* C7 (as stated): once exactly the starts of the first 2k runs of           *)
(* D,K,D,K,D,K have been observed (k = 1, 2, 3), totalDiscovered is the sum  *)
(* of the first k Discovered lengths and totalKnown the sum of the first k   *)
(* Known lengths.                                                            *)
C7_TotalsAfter2kRuns ==
    LET r == RunsOf(fed) IN
    \A k \in 1..3 :
        Alternating(r, 2 * k) =>
            /\ total_green = SumLen(r, { 2 * i - 1 : i \in 1..k })
            /\ total_blue  = SumLen(r, { 2 * i : i \in 1..k })

(* C7 (amended): once exactly the starts of the first 2k runs have been      *)
(* observed, the 2k-th run is still open and the totals are the sums of the  *)
(* first k-1 Discovered and the first k-1 Known lengths; they become the     *)
(* sums of the first k of each once the first start of run 2k+1 is observed. *)
C7_TotalsLagOnePair ==
    LET r == RunsOf(fed) IN
    \A k \in 1..3 :
        /\ Alternating(r, 2 * k) =>
              /\ total_green = SumLen(r, { 2 * i - 1 : i \in 1..(k - 1) })
              /\ total_blue  = SumLen(r, { 2 * i : i \in 1..(k - 1) })
        /\ (Alternating(r, 2 * k + 1) /\ r[2 * k + 1].len = 1) =>
              /\ total_green = SumLen(r, { 2 * i - 1 : i \in 1..k })
              /\ total_blue  = SumLen(r, { 2 * i : i \in 1..k })

C7_Witness ==
    /\ Alternating(RunsOf(fed), 6)
    /\ total_green = 3
    /\ total_blue = 2

(* C8 (as stated): from memo {1}, the starts 3, 5, 7 are classified           *)
(* Discovered, Known, Known and after start 7 the tallies are                *)
(* totalDiscovered = 1, totalKnown = 2.                                      *)
C8_Scenario357 ==
    processed = 4 =>
        /\ fed = <<"green", "blue", "blue">>
        /\ total_green = 1
        /\ total_blue = 2

(* C8 (amended): from memo {1}, the starts 3, 5, 7 are classified             *)
(* Discovered, Known, Discovered (7 is not memoized; its walk stops at the   *)
(* memoized 5) and after start 7 the tallies are totalDiscovered = 1,        *)
(* totalKnown = 1.                                                           *)
C8_Scenario357AsCoded ==
    processed = 4 =>
        /\ fed = <<"green", "blue", "green">>
        /\ total_green = 1
        /\ total_blue = 1
        /\ seen_odds = {1, 3, 5, 7, 11, 13, 17}

C8_Witness ==
    /\ processed = 4
    /\ n = 7
    /\ pc = "done"
    /\ total_green = 1

----------------------------------------------------------------------------
(* The starts 2^k - 1 (k >= 2) of a scan up to m *)
Boundaries(m) == { b \in 3..m : IsPowerOfTwo(b + 1) }

(* C9: every checkpoint line carries the power k of the boundary start       *)
(* 2^k - 1 it is emitted for: a line printed in the boundary's own iteration *)
(* is printed at 2^label - 1, and a deferred line is printed after the       *)
(* boundary 2^label - 1 has been processed.                                  *)
C9_LabelIsBoundaryPower ==
    \A i \in DOMAIN events :
        IF events[i].deferred
          THEN 2 ^ events[i].label - 1 < events[i].at
          ELSE 2 ^ events[i].label - 1 = events[i].at

(* C10: when the scan has finished, one checkpoint line has been printed for *)
(* every boundary start 2^k - 1 <= MAX_VAL and none is still awaited.        *)
C10_OneEventPerBoundary ==
    pc = "done" =>
        /\ Len(events) = Cardinality(Boundaries(max_val))
        /\ print_await_next_pair = FALSE

----------------------------------------------------------------------------
(* Vocabulary of the properties: what one iteration of the loop did *)

(* A deferred checkpoint line is printed by this step *)
DeferredLinePrinted ==
    \E i \in (Len(events) + 1)..Len(events') : events'[i].deferred

(* A green/blue pair is completed by this step: the totals are updated *)
PairCompleted == total_runs' > total_runs

(* The colour observed by this step of the run-length update *)
Observed == fed'[Len(fed')]

LargestOddUpTo(m) == IF m % 2 = 1 THEN m ELSE m - 1

(* C11: a deferred checkpoint line is printed in the first iteration after   *)
(* its boundary in which a green/blue pair is completed (a blue run closes   *)
(* against a pending green length and the totals are updated), and not in an *)
(* iteration where only a green run closes and a blue run begins.            *)
C11_DeferredLineAtPairCompletion ==
    [][ /\ DeferredLinePrinted => PairCompleted
        /\ (pc = "ret" /\ print_await_next_pair /\ PairCompleted)
              => DeferredLinePrinted ]_vars

(* C12: a boundary start below 17 (3, 7, 15) gets its checkpoint line in its *)
(* own iteration; a boundary start from 17 on gets none in its own           *)
(* iteration, the awaiting flag is set and a deferred line only appears at a *)
(* strictly later start; next_pow advances by exactly one in both cases.     *)
C12_ImmediateBelow17DeferredFrom17 ==
    [][ /\ (pc = "ret" /\ n >= 3 /\ IsPowerOfTwo(n + 1)) =>
              /\ next_pow' = next_pow + 1
              /\ n < 17 =>
                    /\ Len(events') = Len(events) + 1
                    /\ events'[Len(events')].at = n
                    /\ ~events'[Len(events')].deferred
                    /\ print_await_next_pair' = print_await_next_pair
              /\ n >= 17 =>
                    /\ print_await_next_pair'
                    /\ \A i \in DOMAIN events' :
                          events'[i].at = n =>
                              events'[i].deferred /\ print_await_next_pair
        /\ \A i \in DOMAIN events' :
              events'[i].deferred =>
                  \E b \in Boundaries(events'[i].at - 1) : b >= 17 ]_vars

C12_Witness ==
    /\ Len(events) = 4
    /\ ~events[3].deferred
    /\ events[3].at = 15
    /\ events[4].deferred
    /\ events[4].at = 35
    /\ next_pow = 6

(* C13 (as stated): a heartbeat is issued at the first processed start and   *)
(* consecutive heartbeats are 16384 processed starts apart, counted by       *)
(* 1-indexed position in the scan.                                           *)
C13_HeartbeatEvery16384Starts ==
    /\ processed >= 1 => Len(heartbeats) = ((processed - 1) \div HEARTBEAT) + 1
    /\ \A i \in DOMAIN heartbeats : heartbeats[i] = 1 + (i - 1) * HEARTBEAT

(* C13 (amended): a heartbeat is issued for every start n with               *)
(* n % 16384 = 1, that is at the first processed start and then every 8192   *)
(* processed starts: consecutive heartbeat starts differ by 16384 in value   *)
(* and by 8192 in 1-indexed position.                                        *)
C13_HeartbeatEvery8192Starts ==
    /\ processed >= 1 =>
          Len(heartbeats) = ((processed - 1) \div (HEARTBEAT \div 2)) + 1
    /\ \A i \in DOMAIN heartbeats :
          heartbeats[i] = 1 + (i - 1) * (HEARTBEAT \div 2)

C13_Witness ==
    /\ pc = "done"
    /\ Len(heartbeats) >= 2
    /\ heartbeats[1] = 1
    /\ heartbeats[2] = 1 + HEARTBEAT \div 2

(* C14: processing the seed start n = 1 increments processed and leaves the  *)
(* run/pair state as it was (no current colour, current length 0, no pending *)
(* length, totals 0); a scan whose bound admits only n = 1 ends with no run  *)
(* and the percentages (0.0, 0.0).                                           *)
C14_SeedStartNotCounted ==
    [][ /\ (pc = "ret" /\ n = 1) =>
              /\ processed' = processed + 1
              /\ current_color' = "None" /\ current_color = "None"
              /\ current_len' = 0 /\ current_len = 0
              /\ pending_green' = None /\ pending_green = None
              /\ total_green' = 0
              /\ total_blue' = 0
              /\ total_runs' = 0
              /\ fed' = << >>
        /\ (pc' = "done" /\ max_val <= 2) =>
              /\ RunsOf(fed') = << >>
              /\ current_color' = "None"
              /\ pct(total_green', total_runs') = <<0, 1>>
              /\ pct(total_blue', total_runs') = <<0, 1>> ]_vars

C14_Witness ==
    /\ pc = "done"
    /\ max_val = 1
    /\ processed = 1
    /\ current_color = "None"
    /\ total_runs = 0

(* C15: processed grows by exactly 1 in every iteration (n = 1 included) and *)
(* by nothing else, never exceeds total_odds, and equals total_odds when the *)
(* scan has finished, the last processed start being the largest odd         *)
(* integer <= MAX_VAL.                                                       *)
C15_ProgressCount ==
    [][ /\ pc = "ret" => processed' = processed + 1
        /\ pc # "ret" => processed' = processed
        /\ processed' <= total_odds
        /\ pc' = "done" =>
              /\ processed' = total_odds
              /\ n' = LargestOddUpTo(max_val) ]_vars

C15_Witness ==
    /\ pc = "done"
    /\ max_val = 33
    /\ processed = 17
    /\ n = 33

(* C16: the totals change only when a blue run is closed while a pending     *)
(* green length is set: total_green grows by the pending length, total_blue  *)
(* by the closed blue run's length and the pending length is cleared; in     *)
(* every other case (same colour, a green run closing, a blue run closing    *)
(* with nothing pending) both totals are unchanged.                          *)
C16_TotalsChangeOnlyAtPair ==
    [][ fed' # fed =>
          IF current_color = "blue" /\ Observed = "green" /\ pending_green # None
            THEN /\ total_green' = total_green + pending_green
                 /\ total_blue' = total_blue + current_len
                 /\ pending_green' = None
            ELSE /\ total_green' = total_green
                 /\ total_blue' = total_blue ]_vars

C16_Witness ==
    /\ Len(fed) >= 6
    /\ fed[1] = "blue"
    /\ fed[2] = "blue"
    /\ total_green = 2
    /\ total_blue = 2

(* C17: every walk of the scan terminates, so the scan reaches its end for   *)
(* every upper bound.                                                        *)
C17_ScanFinishes == <>(pc = "done")

C17_Witness ==
    /\ pc = "done"
    /\ processed >= 30
    /\ processed = total_odds

(* C18: whenever a green run is closed no pending green length is set at     *)
(* that moment, so a pending length is never overwritten unconsumed.         *)
C18_PendingNeverOverwritten ==
    [][ (fed' # fed /\ current_color = "green" /\ Observed = "blue") =>
            /\ pending_green = None
            /\ pending_green' = current_len ]_vars

C18_Witness ==
    /\ Len(RunsOf(fed)) = 5
    /\ fed[1] = "green"
    /\ total_runs >= 2
    /\ current_color = "green"
    /\ pending_green = None

(* C19: in a driver scan, at the end of every iteration                      *)
(* total_green + total_blue + (pending_green if set, else 0) + current_len   *)
(* = processed - 1: the first counted start 3 is green, so no run is dropped.*)
C19_EveryCountedStartAccounted ==
    processed >= 1 =>
        /\ total_green + total_blue
             + (IF pending_green # None THEN pending_green ELSE 0)
             + current_len = processed - 1
        /\ processed >= 2 => fed[1] = "green"

C19_Witness ==
    /\ processed = 18
    /\ total_green = 8
    /\ total_blue = 7
    /\ pending_green = 1
    /\ current_len = 1

====
